---- MODULE Spec2Model ----
(***************************************************************************)
(* The StateMachine connector of jsPlumb                                   *)
(* (src/ts/connector/statemachine-connector.ts): the segment classifier    *)
(* _segment, the control-point solver _findControlPoint, the constructor   *)
(* of StateMachine and its _computeBezier method.                          *)
(*                                                                         *)
(* Numbers.  The source computes with JavaScript numbers.  The model       *)
(* keeps integers:                                                         *)
(*   - lengths in pixels (absolute positions, w, h, margin, curviness,     *)
(*     proximityLimit, box corners) are integers;                          *)
(*   - a proportional position (sourcePos[2], sourcePos[3], ...) and a     *)
(*     control-point coordinate are held in HALF units: the integer v      *)
(*     stands for the number v/2, so that 0.5 and the division by 2 of     *)
(*     the midpoint are exact.  H(n) writes the number n in half units;    *)
(*   - the distance sqrt(d2) is carried as its square d2, and the          *)
(*     comparison with the limit is made on the squares (SqrtLE).          *)
(* An `undefined' value is the empty tuple << >>.                          *)
(***************************************************************************)
EXTENDS Integers, Sequences, FiniteSets, TLC

VARIABLES
    curviness,       \* this.curviness
    margin,          \* this.margin
    proximityLimit,  \* this.proximityLimit
    clockwise,       \* this.clockwise: "true", "false" or "undefined"
    _controlPoint,   \* this._controlPoint, << >> until the first draw
    segments,        \* the descriptors the latest _computeBezier handed to _addSegment
    params,          \* params.sourcePos / params.targetPos of the latest draw
    w,               \* argument w of the latest draw
    h,               \* argument h of the latest draw
    fn,              \* the latest call of a module-level function: name, args, ret
    prev             \* an earlier draw kept by an observer: << >> or <<[key, segments]>>

vars == <<curviness, margin, proximityLimit, clockwise, _controlPoint,
          segments, params, w, h, fn, prev>>

----------------------------------------------------------------------------
(* Bounds of the model.                                                    *)

\* how far from the source anchor, at the origin, the target anchor is moved
AbsFar == 1
\* a box dimension smaller than twice the default margin
NearDim == 6
\* a box dimension larger than the default proximity limit
FarDim == 200
\* the values a caller gives instead of the defaults
CustomCurviness == 3
CustomMargin == 2
CustomProximity == 4
\* corner coordinates handed to _segment range over -MaxCoord..MaxCoord
MaxCoord == 2
\* the proximity limit handed to _findControlPoint when it is called alone
SolverLimit == 2

(* Program constants: the defaults of the constructor.                     *)
DefaultCurviness == 10
DefaultMargin == 5
DefaultProximityLimit == 80

----------------------------------------------------------------------------
(* Number representation.                                                  *)

\* the number n, written in half units
H(n) == 2 * n
\* the literal 0.5, in half units
Half == H(1) \div 2
\* mutant: the comparison is strict
SqrtLT(d2, limit) == limit >= 0 /\ d2 < limit * limit
\* sqrt(d2) <= limit, for d2 >= 0: a square root is never negative
SqrtLE(d2, limit) == limit >= 0 /\ d2 <= limit * limit
\* a JavaScript array [x, y], indexed from 0
Pair(x, y) == [i \in 0..1 |-> IF i = 0 THEN x ELSE y]
\* an anchor position [absolute x, absolute y, proportional x, proportional y]
Pos(ax, ay, px, py) ==
    [i \in 0..3 |-> IF i = 0 THEN ax ELSE IF i = 1 THEN ay ELSE IF i = 2 THEN px ELSE py]
\* JavaScript's  a || b  on numbers: 0 (as undefined) is falsy
OrElse(a, b) == IF a = 0 THEN b ELSE a

----------------------------------------------------------------------------
(* _segment, lines 9-20.                                                   *)

\* mutant: the second rule is tried before the first
_segmentSecondFirst(x1, y1, x2, y2) ==
    IF x1 <= x2 /\ y1 <= y2 THEN 2
    ELSE IF x1 <= x2 /\ y2 <= y1 THEN 1
    ELSE IF x2 <= x1 /\ y2 >= y1 THEN 3
    ELSE 4

\* mutant: the first two rules compare x strictly
_segmentStrictX(x1, y1, x2, y2) ==
    IF x1 < x2 /\ y2 <= y1 THEN 1
    ELSE IF x1 < x2 /\ y1 <= y2 THEN 2
    ELSE IF x2 <= x1 /\ y2 >= y1 THEN 3
    ELSE 4

_segment(x1, y1, x2, y2) ==
    IF x1 <= x2 /\ y2 <= y1 THEN 1
    ELSE IF x1 <= x2 /\ y1 <= y2 THEN 2
    ELSE IF x2 <= x1 /\ y2 >= y1 THEN 3
    ELSE 4

----------------------------------------------------------------------------
(* _findControlPoint, lines 36-87.  midx, midy and the result are in half  *)
(* units, dx and dy in pixels, distance2 is the square of `distance'.      *)

\* mutant: the default of segments 2 and 4 offsets x by dx / 2
_findControlPointHalfDx(midx, midy, segment, sourceEdge, targetEdge, dx, dy, distance2, limit) ==
    LET a == IF segment \in {1, 4}
             THEN sourceEdge[3] <= H(0) /\ targetEdge[3] >= H(1)
             ELSE sourceEdge[3] >= H(1) /\ targetEdge[3] <= H(0)
        b == IF segment \in {1, 2}
             THEN sourceEdge[2] >= H(1) /\ targetEdge[2] <= H(0)
             ELSE sourceEdge[2] <= H(0) /\ targetEdge[2] >= H(1)
    IN  IF SqrtLE(distance2, limit) THEN Pair(midx, midy)
        ELSE IF segment \notin 1..4 THEN << >>
        ELSE IF a THEN Pair(midx + H(IF sourceEdge[2] < Half THEN -1 * dx ELSE dx), midy)
        ELSE IF b THEN Pair(midx, midy + H(IF sourceEdge[3] < Half THEN -1 * dy ELSE dy))
        ELSE IF segment \in {1, 3} THEN Pair(midx + H(-1 * dx), midy + H(-1 * dy))
        ELSE Pair(midx + dx, midy + H(-1 * dy))

\* mutant: segment 3 tests the perpendicular faces as segments 1 and 2 do
_findControlPointSeg3(midx, midy, segment, sourceEdge, targetEdge, dx, dy, distance2, limit) ==
    LET a == IF segment \in {1, 4}
             THEN sourceEdge[3] <= H(0) /\ targetEdge[3] >= H(1)
             ELSE sourceEdge[3] >= H(1) /\ targetEdge[3] <= H(0)
        b == IF segment \in {1, 2, 3}
             THEN sourceEdge[2] >= H(1) /\ targetEdge[2] <= H(0)
             ELSE sourceEdge[2] <= H(0) /\ targetEdge[2] >= H(1)
    IN  IF SqrtLE(distance2, limit) THEN Pair(midx, midy)
        ELSE IF segment \notin 1..4 THEN << >>
        ELSE IF a THEN Pair(midx + H(IF sourceEdge[2] < Half THEN -1 * dx ELSE dx), midy)
        ELSE IF b THEN Pair(midx, midy + H(IF sourceEdge[3] < Half THEN -1 * dy ELSE dy))
        ELSE IF segment \in {1, 3} THEN Pair(midx + H(-1 * dx), midy + H(-1 * dy))
        ELSE Pair(midx + H(dx), midy + H(-1 * dy))

_findControlPoint(midx, midy, segment, sourceEdge, targetEdge, dx, dy, distance2, limit) ==
    IF SqrtLE(distance2, limit) THEN Pair(midx, midy)
    ELSE IF segment = 1 THEN
        IF sourceEdge[3] <= H(0) /\ targetEdge[3] >= H(1)
        THEN Pair(midx + H(IF sourceEdge[2] < Half THEN -1 * dx ELSE dx), midy)
        ELSE IF sourceEdge[2] >= H(1) /\ targetEdge[2] <= H(0)
        THEN Pair(midx, midy + H(IF sourceEdge[3] < Half THEN -1 * dy ELSE dy))
        ELSE Pair(midx + H(-1 * dx), midy + H(-1 * dy))
    ELSE IF segment = 2 THEN
        IF sourceEdge[3] >= H(1) /\ targetEdge[3] <= H(0)
        THEN Pair(midx + H(IF sourceEdge[2] < Half THEN -1 * dx ELSE dx), midy)
        ELSE IF sourceEdge[2] >= H(1) /\ targetEdge[2] <= H(0)
        THEN Pair(midx, midy + H(IF sourceEdge[3] < Half THEN -1 * dy ELSE dy))
        ELSE Pair(midx + H(dx), midy + H(-1 * dy))
    ELSE IF segment = 3 THEN
        IF sourceEdge[3] >= H(1) /\ targetEdge[3] <= H(0)
        THEN Pair(midx + H(IF sourceEdge[2] < Half THEN -1 * dx ELSE dx), midy)
        ELSE IF sourceEdge[2] <= H(0) /\ targetEdge[2] >= H(1)
        THEN Pair(midx, midy + H(IF sourceEdge[3] < Half THEN -1 * dy ELSE dy))
        ELSE Pair(midx + H(-1 * dx), midy + H(-1 * dy))
    ELSE IF segment = 4 THEN
        IF sourceEdge[3] <= H(0) /\ targetEdge[3] >= H(1)
        THEN Pair(midx + H(IF sourceEdge[2] < Half THEN -1 * dx ELSE dx), midy)
        ELSE IF sourceEdge[2] <= H(0) /\ targetEdge[2] >= H(1)
        THEN Pair(midx, midy + H(IF sourceEdge[3] < Half THEN -1 * dy ELSE dy))
        ELSE Pair(midx + H(dx), midy + H(-1 * dy))
    ELSE << >>

----------------------------------------------------------------------------
(* The constructor, lines 98-105.  p is the options object; a numeric      *)
(* option that is absent is 0, an absent orientation is "undefined".       *)

ConstructedCurviness(p) == OrElse(p.curviness, DefaultCurviness)
ConstructedMargin(p) == OrElse(p.margin, DefaultMargin)
ConstructedProximityLimit(p) == OrElse(p.proximityLimit, DefaultProximityLimit)
ConstructedClockwise(p) ==
    IF p.orientation = "undefined" THEN "undefined"
    ELSE IF p.orientation = "clockwise" THEN "true" ELSE "false"

----------------------------------------------------------------------------
(* _computeBezier, lines 107-187.                                          *)

\* lines 108-111: the corners before the margin
BaseCorners(p, nw, nh) ==
    [sx |-> IF p.sourcePos[0] < p.targetPos[0] THEN 0 ELSE nw,
     sy |-> IF p.sourcePos[1] < p.targetPos[1] THEN 0 ELSE nh,
     tx |-> IF p.sourcePos[0] < p.targetPos[0] THEN nw ELSE 0,
     ty |-> IF p.sourcePos[1] < p.targetPos[1] THEN nh ELSE 0]

\* mutant: the edges are tested with <= 0 and >= 1
AdjustBeyond(c, prop, m) ==
    LET c1 == IF prop <= H(0) THEN c - m ELSE c
    IN  IF prop >= H(1) THEN c1 + m ELSE c1

\* one pair of the  if (... === 0) -= margin; if (... === 1) += margin  statements
Adjust(c, prop, m) ==
    LET c1 == IF prop = H(0) THEN c - m ELSE c
    IN  IF prop = H(1) THEN c1 + m ELSE c1

\* lines 113-137: the corners adjusted for the margin
MarginAdjusted(base, p, m) ==
    [sx |-> Adjust(base.sx, p.sourcePos[2], m),
     sy |-> Adjust(base.sy, p.sourcePos[3], m),
     tx |-> Adjust(base.tx, p.targetPos[2], m),
     ty |-> Adjust(base.ty, p.targetPos[3], m)]

\* lines 159-160: (a + b) / 2, in half units
Mid(a, b) == a + b

\* line 162, without the square root
Distance2(c) == (c.tx - c.sx) * (c.tx - c.sx) + (c.ty - c.sy) * (c.ty - c.sy)

\* mutant: a clockwise connector bends the other way
SolverArgsOriented(c, p, curv, limit) ==
    [midx |-> Mid(c.sx, c.tx), midy |-> Mid(c.sy, c.ty),
     segment |-> _segment(c.sx, c.sy, c.tx, c.ty),
     sourceEdge |-> p.sourcePos, targetEdge |-> p.targetPos,
     dx |-> IF clockwise = "true" THEN -1 * curv ELSE curv, dy |-> curv,
     distance2 |-> Distance2(c), proximityLimit |-> limit]

\* lines 168-175: the arguments handed to _findControlPoint
SolverArgs(c, p, curv, limit) ==
    [midx |-> Mid(c.sx, c.tx), midy |-> Mid(c.sy, c.ty),
     segment |-> _segment(c.sx, c.sy, c.tx, c.ty),
     sourceEdge |-> p.sourcePos, targetEdge |-> p.targetPos,
     dx |-> curv, dy |-> curv,
     distance2 |-> Distance2(c), proximityLimit |-> limit]

\* the call of _findControlPoint on a record of arguments
Solve(a) ==
    _findControlPoint(a.midx, a.midy, a.segment, a.sourceEdge, a.targetEdge,
                      a.dx, a.dy, a.distance2, a.proximityLimit)

\* mutant: the endpoints in source-then-target order
DescriptorSourceFirst(c, cp) ==
    [x1 |-> c.sx, y1 |-> c.sy, x2 |-> c.tx, y2 |-> c.ty,
     cp1x |-> cp[0], cp1y |-> cp[1],
     cp2x |-> cp[0], cp2y |-> cp[1]]

\* lines 177-186: the descriptor handed to _addSegment
Descriptor(c, cp) ==
    [x1 |-> c.tx, y1 |-> c.ty, x2 |-> c.sx, y2 |-> c.sy,
     cp1x |-> cp[0], cp1y |-> cp[1],
     cp2x |-> cp[0], cp2y |-> cp[1]]

\* line 182: this._addSegment(BezierSegment, {...})
_addSegment(segs, d) == Append(segs, d)

----------------------------------------------------------------------------
(* The inputs the model draws from.                                        *)

\* absolute coordinates of the target anchor; the source anchor stays at the origin
AbsCoords == {0 - AbsFar, 0, AbsFar}
\* the same, right of and below the source only
AwayCoords == {0, AbsFar}
\* proportional positions 0, 0.5 and 1, in half units
Props == {H(0), Half, H(1)}
\* proportional positions -0.5, 0, 0.5, 1 and 1.5, in half units
WideProps == {H(0) - Half, H(0), Half, H(1), H(1) + Half}
\* proportional positions on the two extreme edges
EdgeProps == {H(0), H(1)}
\* box widths and heights
Dims == {0, NearDim, FarDim}
\* the options objects given to the constructor
DefaultOptions ==
    [curviness |-> 0, margin |-> 0, proximityLimit |-> 0, orientation |-> "undefined"]
Options ==
    {DefaultOptions,
     [curviness |-> CustomCurviness, margin |-> CustomMargin,
      proximityLimit |-> CustomProximity, orientation |-> "clockwise"],
     [curviness |-> 0 - CustomCurviness, margin |-> 0 - CustomMargin,
      proximityLimit |-> 0, orientation |-> "counterclockwise"]}
\* options objects that differ in the orientation, and one that differs in the curviness
OrientedOptions ==
    {[DefaultOptions EXCEPT !.orientation = o] :
        o \in {"undefined", "clockwise", "counterclockwise"}}
    \cup {[DefaultOptions EXCEPT !.curviness = CustomCurviness]}

\* the layout before the first draw of a connector: both anchors at the origin
NoDraw == [sourcePos |-> Pos(0, 0, H(0), H(0)), targetPos |-> Pos(0, 0, H(0), H(0))]
\* no module-level function has been called yet
NoCall == [name |-> "none", args |-> << >>, done |-> FALSE, ret |-> << >>]

----------------------------------------------------------------------------
(* The connector: construction and draws.                                  *)

\* the state after  new StateMachine(instance, connection, p), lines 98-105
InitWith(O) ==
    /\ \E p \in O :
          /\ curviness = ConstructedCurviness(p)
          /\ margin = ConstructedMargin(p)
          /\ proximityLimit = ConstructedProximityLimit(p)
          /\ clockwise = ConstructedClockwise(p)
    /\ _controlPoint = << >>
    /\ segments = << >>
    /\ params = NoDraw
    /\ w = 0
    /\ h = 0
    /\ prev = << >>

Init == InitWith(Options) /\ fn = NoCall

\* the connector is replaced by a newly constructed one (lines 98-105)
ConstructWith(O) ==
    /\ \E p \in O :
          /\ curviness' = ConstructedCurviness(p)
          /\ margin' = ConstructedMargin(p)
          /\ proximityLimit' = ConstructedProximityLimit(p)
          /\ clockwise' = ConstructedClockwise(p)
    /\ _controlPoint' = << >>
    /\ segments' = << >>
    /\ params' = NoDraw
    /\ w' = 0
    /\ h' = 0
    /\ fn' = NoCall
    /\ UNCHANGED prev

\* this._computeBezier(paintInfo, p, sp, tp, nw, nh), lines 107-187
_computeBezier(p, nw, nh) ==
    LET c  == MarginAdjusted(BaseCorners(p, nw, nh), p, margin)
        a  == SolverArgs(c, p, curviness, proximityLimit)
        cp == Solve(a)
    IN  /\ _controlPoint' = cp
        /\ segments' = _addSegment(<< >>, Descriptor(c, cp))
        /\ fn' = [name |-> "_findControlPoint", args |-> a, done |-> TRUE, ret |-> cp]
        /\ params' = p
        /\ w' = nw
        /\ h' = nh
        /\ UNCHANGED <<curviness, margin, proximityLimit, clockwise, prev>>

(* A draw follows every change of the layout: an anchor's element moved,   *)
(* an anchor moved on its element, or the box changed.                     *)

SourceReanchoredIn(P) ==
    \E px, py \in P :
        _computeBezier([params EXCEPT !.sourcePos =
            Pos(params.sourcePos[0], params.sourcePos[1], px, py)], w, h)

TargetMovedIn(A) ==
    \E ax, ay \in A :
        _computeBezier([params EXCEPT !.targetPos =
            Pos(ax, ay, params.targetPos[2], params.targetPos[3])], w, h)

TargetReanchoredIn(P) ==
    \E px, py \in P :
        _computeBezier([params EXCEPT !.targetPos =
            Pos(params.targetPos[0], params.targetPos[1], px, py)], w, h)

ResizedIn(D) == \E nw, nh \in D : _computeBezier(params, nw, nh)

Construct == ConstructWith(Options)
SourceReanchored == SourceReanchoredIn(Props)
TargetMoved == TargetMovedIn(AbsCoords)
TargetReanchored == TargetReanchoredIn(Props)
Resized == ResizedIn(Dims)

Next ==
    \/ Construct
    \/ SourceReanchored
    \/ TargetMoved
    \/ TargetReanchored
    \/ Resized

Spec == Init /\ [][Next]_vars

\* a draw has been made since the connector was constructed
Drawn == _controlPoint # << >>

----------------------------------------------------------------------------
(* Anchors anywhere on and off the faces, between elements a fixed box     *)
(* apart: the draws in which the margin adjustment has all its cases.      *)

TargetMovedAway == TargetMovedIn(AwayCoords)
SourceOffFace == SourceReanchoredIn(WideProps)
TargetOffFace == TargetReanchoredIn(WideProps)
ResizedNear == ResizedIn({NearDim})

NextAnchors ==
    \/ Construct
    \/ TargetMovedAway
    \/ SourceOffFace
    \/ TargetOffFace
    \/ ResizedNear

SpecAnchors == Init /\ [][NextAnchors]_vars

----------------------------------------------------------------------------
(* Redraws watched by an observer, who keeps the descriptor of one draw    *)
(* and compares it with the descriptors of the draws that follow.          *)

\* what the observer compares between draws: the inputs and the three settings
DrawKey == <<params, w, h, curviness, margin, proximityLimit>>

Observe ==
    /\ Drawn
    /\ prev' = <<[key |-> DrawKey, segments |-> segments, clockwise |-> clockwise]>>
    /\ UNCHANGED <<curviness, margin, proximityLimit, clockwise, _controlPoint,
                   segments, params, w, h, fn>>

Reconstruct == ConstructWith(OrientedOptions)
TargetOnEdge == TargetReanchoredIn(EdgeProps)
ResizedFar == ResizedIn({FarDim})

NextRedraw ==
    \/ Reconstruct
    \/ TargetMovedAway
    \/ TargetOnEdge
    \/ ResizedFar
    \/ Observe

InitRedraw == InitWith(OrientedOptions) /\ fn = NoCall

SpecRedraw == InitRedraw /\ [][NextRedraw]_vars

----------------------------------------------------------------------------
(* The two module-level functions called on their own.                     *)

Coords == (0 - MaxCoord)..MaxCoord
SegmentCalls ==
    {[name |-> "_segment", args |-> [x1 |-> x1, y1 |-> y1, x2 |-> x2, y2 |-> y2],
      done |-> FALSE, ret |-> 0] : x1, y1, x2, y2 \in Coords}

\* segment values, two of them outside 1..4
SolverSegments == 0..5
\* midpoints, in half units
SolverMids == {Pair(0, 0), Pair(1, H(2))}
\* limits, and squared distances below, at and above a limit
SolverLimits == {0 - SolverLimit, 0, SolverLimit}
SolverDistances2 == {0, SolverLimit * SolverLimit, SolverLimit * SolverLimit + 1}
SolverCalls ==
    {[name |-> "_findControlPoint",
      args |-> [midx |-> m[0], midy |-> m[1], segment |-> s,
                sourceEdge |-> Pos(0, 0, e[1], e[2]), targetEdge |-> Pos(0, 0, e[3], e[4]),
                dx |-> CustomCurviness, dy |-> d,
                distance2 |-> d2, proximityLimit |-> l],
      done |-> FALSE, ret |-> << >>] :
        m \in SolverMids, s \in SolverSegments,
        e \in WideProps \X WideProps \X WideProps \X WideProps,
        d \in {CustomCurviness, DefaultCurviness},
        d2 \in SolverDistances2, l \in SolverLimits}

InitFn ==
    /\ InitWith({DefaultOptions})
    /\ (fn \in SegmentCalls \/ fn \in SolverCalls)

ApplySegment ==
    /\ fn.name = "_segment"
    /\ ~fn.done
    /\ fn' = [fn EXCEPT !.done = TRUE,
                        !.ret = _segment(fn.args.x1, fn.args.y1, fn.args.x2, fn.args.y2)]
    /\ UNCHANGED <<curviness, margin, proximityLimit, clockwise, _controlPoint,
                   segments, params, w, h, prev>>

ApplyFindControlPoint ==
    /\ fn.name = "_findControlPoint"
    /\ ~fn.done
    /\ fn' = [fn EXCEPT !.done = TRUE, !.ret = Solve(fn.args)]
    /\ UNCHANGED <<curviness, margin, proximityLimit, clockwise, _controlPoint,
                   segments, params, w, h, prev>>

NextFn == ApplySegment \/ ApplyFindControlPoint

SpecFn == InitFn /\ [][NextFn]_vars

----------------------------------------------------------------------------
(* Properties of _segment and _findControlPoint, under SpecFn.             *)

SegmentCalled == fn.name = "_segment" /\ fn.done
SolverCalled == fn.name = "_findControlPoint" /\ fn.done

\* C1: for all corner coordinates _segment returns exactly one value of 1..4,
\* the one of the first rule that matches, in the order: 1 if x1 <= x2 and
\* y2 <= y1; else 2 if x1 <= x2 and y1 <= y2; else 3 if x2 <= x1 and y2 >= y1;
\* else 4.
C1_SegmentFirstMatch ==
    SegmentCalled =>
        LET a  == fn.args
            r1 == a.x1 <= a.x2 /\ a.y2 <= a.y1
            r2 == a.x1 <= a.x2 /\ a.y1 <= a.y2
            r3 == a.x2 <= a.x1 /\ a.y2 >= a.y1
        IN  /\ fn.ret \in 1..4
            /\ r1 => fn.ret = 1
            /\ (~r1 /\ r2) => fn.ret = 2
            /\ (~r1 /\ ~r2 /\ r3) => fn.ret = 3
            /\ (~r1 /\ ~r2 /\ ~r3) => fn.ret = 4

\* C1 witness: a tie on y between rules 1 and 2 (x1 < x2, y1 = y2) went to rule 1
C1_Witness ==
    /\ SegmentCalled
    /\ fn.args.x1 < fn.args.x2
    /\ fn.args.y1 = fn.args.y2
    /\ fn.ret = 1

\* C8 as stated: when the corners are equal on one axis (x1 = x2, or y1 = y2),
\* _segment returns 1 or 2, never 3 or 4.
C8_EqualAxisOneOrTwo ==
    (SegmentCalled /\ (fn.args.x1 = fn.args.x2 \/ fn.args.y1 = fn.args.y2))
        => fn.ret \in {1, 2}

\* C8 amended: when x1 = x2, or y1 = y2 with x1 <= x2, _segment returns 1 or 2,
\* never 3 or 4; when y1 = y2 and x2 < x1 it returns 3.
C8_EqualAxisAmended ==
    SegmentCalled =>
        /\ fn.args.x1 = fn.args.x2 => fn.ret \in {1, 2}
        /\ (fn.args.y1 = fn.args.y2 /\ fn.args.x1 <= fn.args.x2) => fn.ret \in {1, 2}
        /\ (fn.args.y1 = fn.args.y2 /\ fn.args.x2 < fn.args.x1) => fn.ret = 3

\* C8 witness: corners equal on y only, the target corner to the left, classified 3
C8_Witness ==
    /\ SegmentCalled
    /\ fn.args.y1 = fn.args.y2
    /\ fn.args.x2 < fn.args.x1
    /\ fn.ret = 3

\* the rule table of the solver, as the specification groups it
TableConditionA(a) ==
    IF a.segment \in {1, 4}
    THEN a.sourceEdge[3] <= H(0) /\ a.targetEdge[3] >= H(1)
    ELSE a.sourceEdge[3] >= H(1) /\ a.targetEdge[3] <= H(0)
TableConditionB(a) ==
    IF a.segment \in {1, 2}
    THEN a.sourceEdge[2] >= H(1) /\ a.targetEdge[2] <= H(0)
    ELSE a.sourceEdge[2] <= H(0) /\ a.targetEdge[2] >= H(1)
TablePoint(a) ==
    IF TableConditionA(a)
    THEN Pair(IF a.sourceEdge[2] < Half THEN a.midx - H(a.dx) ELSE a.midx + H(a.dx), a.midy)
    ELSE IF TableConditionB(a)
    THEN Pair(a.midx, IF a.sourceEdge[3] < Half THEN a.midy - H(a.dy) ELSE a.midy + H(a.dy))
    ELSE IF a.segment \in {1, 3}
    THEN Pair(a.midx - H(a.dx), a.midy - H(a.dy))
    ELSE Pair(a.midx + H(a.dx), a.midy - H(a.dy))

----------------------------------------------------------------------------
(* Properties of the draws.                                                *)

\* the descriptor of the latest draw, and what it shows of the geometry
Emitted == segments[1]
EmittedDistance2 ==
    (Emitted.x1 - Emitted.x2) * (Emitted.x1 - Emitted.x2)
        + (Emitted.y1 - Emitted.y2) * (Emitted.y1 - Emitted.y2)
\* the midpoint of the emitted endpoints, in half units
EmittedMid == Pair(Emitted.x1 + Emitted.x2, Emitted.y1 + Emitted.y2)
WithinLimit == proximityLimit >= 0 /\ EmittedDistance2 <= proximityLimit * proximityLimit

\* C3: in every draw, whenever the distance between the margin-adjusted corners
\* is <= proximityLimit, the control point is the exact midpoint of those
\* corners, whatever the segment and the proportional positions.
C3_ProximityFallback ==
    (Drawn /\ Len(segments) = 1 /\ WithinLimit) => _controlPoint = EmittedMid

\* C3 witness: corners apart by exactly proximityLimit, anchors on opposite
\* edges (a rule of the table would apply), control point at the midpoint
C3_Witness ==
    /\ Drawn
    /\ Len(segments) = 1
    /\ EmittedDistance2 = proximityLimit * proximityLimit
    /\ params.sourcePos[3] # params.targetPos[3]
    /\ params.sourcePos[3] \in {H(0), H(1)}
    /\ params.targetPos[3] \in {H(0), H(1)}
    /\ _controlPoint = EmittedMid

\* the shift the margin gives a corner coordinate whose anchor is at prop
Shift(prop) == IF prop = H(0) THEN 0 - margin ELSE IF prop = H(1) THEN margin ELSE 0

\* C4: each of the four corner coordinates is decreased by margin when its
\* anchor's proportional position on that axis is exactly 0, increased by margin
\* when it is exactly 1, and unchanged for every other value, inside or outside
\* [0,1]; each by its own anchor's own-axis position only.
C4_MarginAdjustment ==
    (Drawn /\ Len(segments) = 1) =>
        LET base == BaseCorners(params, w, h)
        IN  /\ Emitted.x2 = base.sx + Shift(params.sourcePos[2])
            /\ Emitted.y2 = base.sy + Shift(params.sourcePos[3])
            /\ Emitted.x1 = base.tx + Shift(params.targetPos[2])
            /\ Emitted.y1 = base.ty + Shift(params.targetPos[3])

\* C4 witness: the four cases at once: source x beyond 1 (unchanged), source y
\* at 0.5 (unchanged), target x at 1 (increased), target y at 0 (decreased)
C4_Witness ==
    /\ Drawn
    /\ Len(segments) = 1
    /\ w = NearDim
    /\ params.sourcePos[0] < params.targetPos[0]
    /\ params.sourcePos[2] > H(1)
    /\ params.sourcePos[3] = Half
    /\ params.targetPos[2] = H(1)
    /\ params.targetPos[3] = H(0)
    /\ Emitted.x2 = 0
    /\ Emitted.x1 = w + margin
    /\ Emitted.y1 = 0 - margin

\* C5: each invocation of _computeBezier emits exactly one descriptor, whose
\* (x1,y1) is the margin-adjusted target corner, whose (x2,y2) is the
\* margin-adjusted source corner, and whose two control handles both equal the
\* solved control point.
C5_OneDescriptor ==
    Drawn =>
        LET c == MarginAdjusted(BaseCorners(params, w, h), params, margin)
        IN  /\ Len(segments) = 1
            /\ Emitted.x1 = c.tx /\ Emitted.y1 = c.ty
            /\ Emitted.x2 = c.sx /\ Emitted.y2 = c.sy
            /\ Emitted.cp1x = _controlPoint[0] /\ Emitted.cp2x = _controlPoint[0]
            /\ Emitted.cp1y = _controlPoint[1] /\ Emitted.cp2y = _controlPoint[1]
            /\ _controlPoint = fn.ret

\* C5 witness: a draw whose two corners differ and whose control point is off
\* the midpoint
C5_Witness ==
    /\ Drawn
    /\ Len(segments) = 1
    /\ Emitted.x1 # Emitted.x2
    /\ Emitted.y1 # Emitted.y2
    /\ Emitted.cp1x # Emitted.x1 + Emitted.x2
    /\ Emitted.cp2y # Emitted.y1 + Emitted.y2

\* the offsets of the control point from the midpoint, in half units
OffsetX == _controlPoint[0] - EmittedMid[0]
OffsetY == _controlPoint[1] - EmittedMid[1]

MidFace(pos) ==
    \/ pos[2] = Half /\ pos[3] \in {H(0), H(1)}
    \/ pos[3] = Half /\ pos[2] \in {H(0), H(1)}

\* C9: if both anchors are at 0.5 on their faces, the control point of a draw
\* is the midpoint of the adjusted corners, also beyond proximityLimit.
C9_MidFaceStraight ==
    (Drawn /\ Len(segments) = 1 /\ MidFace(params.sourcePos) /\ MidFace(params.targetPos))
        => _controlPoint = EmittedMid

\* C10: in every draw with w, h and margin >= 0, the segment handed to the
\* solver is the quadrant of the target anchor relative to the source anchor by
\* absolute position: 1 or 2 if the target is to the right, 3 or 4 if to the
\* left, 2 or 3 if below, 1 or 4 if above.
C10_SegmentIsQuadrant ==
    (Drawn /\ w >= 0 /\ h >= 0 /\ margin >= 0) =>
        /\ params.targetPos[0] > params.sourcePos[0] => fn.args.segment \in {1, 2}
        /\ params.targetPos[0] < params.sourcePos[0] => fn.args.segment \in {3, 4}
        /\ params.targetPos[1] > params.sourcePos[1] => fn.args.segment \in {2, 3}
        /\ params.targetPos[1] < params.sourcePos[1] => fn.args.segment \in {1, 4}

----------------------------------------------------------------------------
(* Properties of redraws, under SpecRedraw.                                *)

\* C7: two draws that agree on the anchors, the box and the curviness, margin
\* and proximityLimit settings emit identical descriptors, whatever the
\* orientation and whatever control point the connector retained.
C7_Deterministic ==
    (Drawn /\ prev # << >> /\ prev[1].key = DrawKey) => segments = prev[1].segments

\* C7 witness: the same inputs drawn clockwise and otherwise, beyond the limit
C7_Witness ==
    /\ Drawn
    /\ prev # << >>
    /\ prev[1].key = DrawKey
    /\ prev[1].clockwise = "true"
    /\ clockwise # "true"
    /\ ~WithinLimit

====
